---- MODULE Spec2Model ----
(***************************************************************************)
(* flixmeter: title resolution (normalise a raw title, generate its        *)
(* candidate list, look the candidates up in the catalog and in the        *)
(* alternate-title index window by window) and the batch analysis of a     *)
(* watch history, as implemented in src/app.py, src/motherapp.py (the same *)
(* engine reading local files) and src/script.py (the in-memory variant).  *)
(*                                                                         *)
(* A Python str is a sequence of one-character strings.  A DataFrame is    *)
(* the sequence of its rows after read_csv, a missing cell is NaN.         *)
(***************************************************************************)
EXTENDS Integers, Sequences, FiniteSets, TLC

VARIABLES
  loaded,            \* calculator.loaded
  moviedata_file,    \* calculator.moviedata_file: a path, or NoFile
  alttitles_file,    \* calculator.alttitles_file: a path, or NoFile
  chunk_size,        \* calculator.chunk_size: rows per window
  disk,              \* the paths that exist on disk
  movie_columns,     \* header of the catalog file
  alt_columns,       \* header of the alternate-title file
  moviedata,         \* rows of the catalog file
  alttitles,         \* rows of the alternate-title file
  title,             \* raw title handed to resolveTitle
  result,            \* what the last lookup returned
  history,           \* watchhistory_df: the rows handed to analyze_watch_history
  limit,             \* its limit argument
  pc,                \* position of the analyze_watch_history call
  total_rows,        \* len(watchhistory_df) after the limit
  batch_start,       \* first row of the 50-row batch being processed
  batch_end,         \* one past its last row
  row_idx,           \* next row to process (0-based)
  total_runtime,
  found_entries,
  not_found_entries,
  response,          \* what analyze_watch_history returned
  reload_pc          \* position of the /api/reload request on the calculator

vars == <<loaded, moviedata_file, alttitles_file, chunk_size, disk,
          movie_columns, alt_columns, moviedata, alttitles, title, result,
          history, limit,
          pc, total_rows, batch_start, batch_end, row_idx, total_runtime,
          found_entries, not_found_entries, response, reload_pc>>

\* the calculator, the reference files, and the reload working on them
engineVars == <<loaded, moviedata_file, alttitles_file, chunk_size, disk,
                movie_columns, alt_columns, moviedata, alttitles, reload_pc>>

batchVars == <<history, limit, pc, total_rows, batch_start, batch_end,
               row_idx, total_runtime, found_entries, not_found_entries,
               response>>

-----------------------------------------------------------------------------
(* Python values *)

\* float('nan') / None in a cell: pd.isna(x) holds
NaN == <<"<NaN>">>

\* str(x) of a missing cell, as produced by astype(str) and by str(title)
NanText == <<"n", "a", "n">>

Min(a, b) == IF a <= b THEN a ELSE b

Max(a, b) == IF a >= b THEN a ELSE b

\* s[i:j] with 1-based inclusive bounds; empty when i > j
Slice(s, i, j) == IF i > j THEN <<>> ELSE SubSeq(s, i, j)

\* str.lower() on one character
LowerChar(c) ==
  CASE c = "A" -> "a"
    [] c = "B" -> "b"
    [] c = "N" -> "n"
    [] c = "S" -> "s"
    [] c = "T" -> "t"
    [] c = "H" -> "h"
    [] c = "E" -> "e"
    [] c = "Z" -> "z"
    [] OTHER -> c

\* str.lower()
Lower(s) == [i \in 1..Len(s) |-> LowerChar(s[i])]

\* \s of the re module, over the characters that occur
IsSpace(c) == c \in {" ", "\t"}

\* \d
IsDigit(c) == c \in {"0", "1", "2", "3", "4", "5", "6", "7", "8", "9"}

\* number of leading whitespace characters of s from position i on
RECURSIVE SpaceRun(_, _)
SpaceRun(s, i) ==
  IF i <= Len(s) /\ IsSpace(s[i]) THEN 1 + SpaceRun(s, i + 1) ELSE 0

\* number of leading digits of s from position i on
RECURSIVE DigitRun(_, _)
DigitRun(s, i) ==
  IF i <= Len(s) /\ IsDigit(s[i]) THEN 1 + DigitRun(s, i + 1) ELSE 0

\* index of the last non-whitespace character, 0 if none
RECURSIVE LastNonSpace(_, _)
LastNonSpace(s, i) ==
  IF i = 0 THEN 0
  ELSE IF IsSpace(s[i]) THEN LastNonSpace(s, i - 1) ELSE i

\* str.strip()
Strip(s) ==
  LET a == SpaceRun(s, 1) + 1
      b == LastNonSpace(s, Len(s))
  IN Slice(s, a, b)

\* s.startswith(p) at position i
StartsAt(s, i, p) ==
  /\ i + Len(p) - 1 <= Len(s)
  /\ \A k \in 1..Len(p) : s[i + k - 1] = p[k]

-----------------------------------------------------------------------------
(* clean_title_for_matching *)

\* The year pattern \s*[\(\[]\d{4}[\)\]]\s* matched at position i: the
\* position after the match, or 0 when there is no match at i.
YearMatchEnd(s, i) ==
  LET o == i + SpaceRun(s, i)
  IN IF /\ o + 5 <= Len(s)
        /\ s[o] \in {"(", "["}
        /\ \A k \in 1..4 : IsDigit(s[o + k])
        /\ s[o + 5] \in {")", "]"}
     THEN o + 6 + SpaceRun(s, o + 6)
     ELSE 0

\* re.sub(r'\s*[\(\[]\d{4}[\)\]]\s*', '', s): leftmost non-overlapping
\* matches, scanned from position i
RECURSIVE SubYear(_, _)
SubYear(s, i) ==
  IF i > Len(s) THEN <<>>
  ELSE LET e == YearMatchEnd(s, i)
       IN IF e # 0 THEN SubYear(s, e)
          ELSE <<s[i]>> \o SubYear(s, i + 1)

SeasonWord == <<"S", "e", "a", "s", "o", "n">>

\* The season pattern :\s*Season\s+\d+\s*: matched at position i: the
\* position after the match, or 0 when there is no match at i.
SeasonMatchEnd(s, i) ==
  IF ~(i <= Len(s) /\ s[i] = ":") THEN 0
  ELSE LET w == i + 1 + SpaceRun(s, i + 1)
       IN IF ~StartsAt(s, w, SeasonWord) THEN 0
          ELSE LET sp == SpaceRun(s, w + 6)
                   d  == w + 6 + sp
                   dg == DigitRun(s, d)
                   c  == d + dg + SpaceRun(s, d + dg)
               IN IF sp >= 1 /\ dg >= 1 /\ c <= Len(s) /\ s[c] = ":"
                  THEN c + 1
                  ELSE 0

\* re.sub(r':\s*Season\s+\d+\s*:', ':', s), scanned from position i
RECURSIVE SubSeason(_, _)
SubSeason(s, i) ==
  IF i > Len(s) THEN <<>>
  ELSE LET e == SeasonMatchEnd(s, i)
       IN IF e # 0 THEN <<":">> \o SubSeason(s, e)
          ELSE <<s[i]>> \o SubSeason(s, i + 1)

\* clean_title_for_matching(title) for a str; NaN (not a str) gives ""
clean_title_for_matching(t) ==
  IF t = NaN THEN <<>>
  ELSE Strip(SubSeason(SubYear(Strip(t), 1), 1))

-----------------------------------------------------------------------------
(* extract_variations *)

\* positions of ':' in s
Colons(s) == {i \in 1..Len(s) : s[i] = ":"}

SetMin(S) == CHOOSE x \in S : \A y \in S : x <= y

SetMax(S) == CHOOSE x \in S : \A y \in S : x >= y

\* s.split(':')[-1]
AfterLastColon(s) == Slice(s, SetMax(Colons(s)) + 1, Len(s))

\* s.split(':')[0]
BeforeFirstColon(s) == Slice(s, 1, SetMin(Colons(s)) - 1)

ThePrefix == <<"t", "h", "e", " ">>

\* var.lower().startswith('the ')
StartsWithThe(v) == StartsAt(Lower(v), 1, ThePrefix)

\* a loop that strips 'the ' from a stripped form once more
RECURSIVE TheStrippedTwice(_, _)
TheStrippedTwice(vs, i) ==
  IF i > Len(vs) THEN <<>>
  ELSE LET once == Strip(Slice(vs[i], 5, Len(vs[i])))
       IN (IF StartsAt([k \in 1..Len(vs[i]) |-> LowerChar(vs[i][k])], 1,
                       <<"t", "h", "e", " ">>)
           THEN <<once>>
                \o (IF StartsAt([k \in 1..Len(once) |-> LowerChar(once[k])],
                                1, <<"t", "h", "e", " ">>)
                    THEN <<Strip(Slice(once, 5, Len(once)))>> ELSE <<>>)
           ELSE <<>>) \o TheStrippedTwice(vs, i + 1)

\* the loop "for var in variations.copy()": the stripped forms, in order
RECURSIVE TheStripped(_, _)
TheStripped(vs, i) ==
  IF i > Len(vs) THEN <<>>
  ELSE (IF StartsWithThe(vs[i])
        THEN <<Strip(Slice(vs[i], 5, Len(vs[i])))>>
        ELSE <<>>) \o TheStripped(vs, i + 1)

\* is x an element of the sequence s
InSeq(x, s) == \E k \in 1..Len(s) : s[k] = x

\* a loop that keeps every variation
KeepAll(vs, i, acc) == vs

\* the loop building unique_variations: empty strings dropped, first
\* occurrence kept
RECURSIVE Unique(_, _, _)
Unique(vs, i, acc) ==
  IF i > Len(vs) THEN acc
  ELSE IF vs[i] # <<>> /\ ~InSeq(vs[i], acc)
       THEN Unique(vs, i + 1, Append(acc, vs[i]))
       ELSE Unique(vs, i + 1, acc)

\* extract_variations(title)
extract_variations(t) ==
  IF t = NaN THEN << <<>> >>
  ELSE LET cleaned == clean_title_for_matching(t)
           episode == IF Colons(cleaned) # {}
                      THEN Strip(AfterLastColon(cleaned)) ELSE <<>>
           series  == IF Colons(cleaned) # {}
                      THEN Strip(BeforeFirstColon(cleaned)) ELSE <<>>
           v0 == <<cleaned>>
                 \o (IF episode # <<>> THEN <<episode>> ELSE <<>>)
                 \o (IF series # <<>> THEN <<series>> ELSE <<>>)
           v1 == v0 \o TheStripped(v0, 1)
       IN Unique(v1, 1, <<>>)

-----------------------------------------------------------------------------
(* DataFrame cells *)

\* A runtimeMinutes cell after read_csv: NaN, a number (h is twice its value,
\* so that 1.5 is h = 3), or text of an object column.
RNaN == [k |-> "nan", s |-> <<>>, h |-> 0]

RNum(h) == [k |-> "num", s |-> <<>>, h |-> h]

RStr(s) == [k |-> "str", s |-> s, h |-> 0]

NullMarker == <<"\\", "N">>

NotApplicable == <<"N", "/", "A">>

\* the value of a run of digits
RECURSIVE DigitsValue(_, _)
DigitsValue(s, n) ==
  IF n = 0 THEN 0
  ELSE 10 * DigitsValue(s, n - 1)
       + (CHOOSE d \in 0..9 : ToString(d) = s[n])

\* float(text) succeeds: an optionally signed run of digits, whitespace around
\* it allowed
TextIsNumber(s) ==
  LET t == Strip(s)
      b == IF t # <<>> /\ t[1] = "-" THEN Tail(t) ELSE t
  IN b # <<>> /\ DigitRun(b, 1) = Len(b)

\* twice float(text)
TextHalves(s) ==
  LET t == Strip(s)
  IN IF t[1] = "-" THEN -2 * DigitsValue(Tail(t), Len(t) - 1)
     ELSE 2 * DigitsValue(t, Len(t))

\* pd.notna(runtime) and str(runtime).strip() not in ['', '\\N', 'N/A']
RuntimePresent(cell) ==
  /\ cell.k # "nan"
  /\ cell.k = "str" => Strip(cell.s) \notin {<<>>, NullMarker, NotApplicable}

\* float(runtime) does not raise
FloatParses(cell) == cell.k = "num" \/ (cell.k = "str" /\ TextIsNumber(cell.s))

\* int(x) of a float given as twice its value: truncation towards zero
Truncate(h) == IF h >= 0 THEN h \div 2 ELSE -((-h) \div 2)

\* int(float(runtime))
RuntimeInt(cell) ==
  Truncate(IF cell.k = "num" THEN cell.h ELSE TextHalves(cell.s))

\* ser.astype(str): a missing name becomes the text 'nan'
AsTypeStr(name) == IF name = NaN THEN NanText ELSE name

\* chunk[col].astype(str).str.lower()
ColumnLower(name) == Lower(AsTypeStr(name))

-----------------------------------------------------------------------------
(* lookup results *)

NoTconst == "None"

\* (runtime_int, tconst, "<label>: '<candidate>'")
Found(rt, tc, label, cand) ==
  [kind |-> "found", runtime |-> rt, tconst |-> tc, info |-> label,
   via |-> cand]

\* (None, None, reason)
NotFound(reason) ==
  [kind |-> "none", runtime |-> 0, tconst |-> NoTconst, info |-> reason,
   via |-> <<>>]

\* an exception leaving the function
Raise(exc) ==
  [kind |-> "raise", runtime |-> 0, tconst |-> NoTconst, info |-> exc,
   via |-> <<>>]

\* the loop goes on
Continue == NotFound("continue")

\* no lookup made yet
NoResult == [fn |-> "none", tv |-> <<>>, out |-> NotFound("")]

-----------------------------------------------------------------------------
(* find_runtime_chunked *)

\* the c-th window (0-based) pd.read_csv(..., chunksize=size) yields
Chunk(rows, size, c) ==
  Slice(rows, c * size + 1, Min((c + 1) * size, Len(rows)))

NumChunks(rows, size) == (Len(rows) + size - 1) \div size

\* chunk[chunk[col + '_lower'] == var]
MatchRows(chunk, col, var) ==
  SelectSeq(chunk, LAMBDA r : ColumnLower(r[col]) = var)

\* [v.lower() for v in title_variations if v]
variations_lower(tv) ==
  LET nonempty == SelectSeq(tv, LAMBDA v : v # <<>>)
  IN [i \in 1..Len(nonempty) |-> Lower(nonempty[i])]

\* The body of "if not match.empty:" for the first matching row: Found, a
\* KeyError leaving the loop, or Continue with the next candidate.
TakeFirstMatch(row, cols, label, cand) ==
  IF "runtimeMinutes" \notin cols THEN Raise("KeyError")
  ELSE IF /\ RuntimePresent(row.runtimeMinutes)
          /\ FloatParses(row.runtimeMinutes)
          /\ "tconst" \in cols
       THEN Found(RuntimeInt(row.runtimeMinutes), row.tconst, label, cand)
       ELSE Continue

\* "for idx, var in enumerate(variations_lower)" over one window and one name
\* column, from candidate idx on
RECURSIVE ScanColumn(_, _, _, _, _, _, _)
ScanColumn(chunk, cols, col, label, vl, tv, idx) ==
  IF idx > Len(vl) THEN Continue
  ELSE LET match == MatchRows(chunk, col, vl[idx])
           r == IF match = <<>> THEN Continue
                ELSE TakeFirstMatch(match[1], cols, label, tv[idx])
       IN IF r = Continue
          THEN ScanColumn(chunk, cols, col, label, vl, tv, idx + 1)
          ELSE r

\* one window of the catalog: the primary title, then the original title
ScanChunk(chunk, cols, vl, tv) ==
  LET p == IF "primaryTitle" \in cols
           THEN ScanColumn(chunk, cols, "primaryTitle", "Primary title match",
                           vl, tv, 1)
           ELSE Continue
  IN IF p # Continue THEN p
     ELSE IF "originalTitle" \in cols
          THEN ScanColumn(chunk, cols, "originalTitle",
                          "Original title match", vl, tv, 1)
          ELSE Continue

\* Strategy 1: "for chunk_idx, chunk in enumerate(moviedata_reader)", from
\* window c on
RECURSIVE CatalogPass(_, _, _, _, _, _)
CatalogPass(rows, cols, size, vl, tv, c) ==
  IF c >= NumChunks(rows, size) THEN Continue
  ELSE LET r == ScanChunk(Chunk(rows, size, c), cols, vl, tv)
       IN IF r # Continue THEN r
          ELSE CatalogPass(rows, cols, size, vl, tv, c + 1)

\* "for movie_chunk in moviedata_reader2": resolve tconst to a runtime, from
\* window c on
RECURSIVE ResolveTconst(_, _, _, _, _, _)
ResolveTconst(rows, cols, size, tconst, cand, c) ==
  IF c >= NumChunks(rows, size) THEN Continue
  ELSE IF "tconst" \notin cols THEN Raise("KeyError")
  ELSE LET match == SelectSeq(Chunk(rows, size, c),
                              LAMBDA r : r.tconst = tconst)
       IN IF match = <<>>
          THEN ResolveTconst(rows, cols, size, tconst, cand, c + 1)
          ELSE IF "runtimeMinutes" \notin cols THEN Raise("KeyError")
          ELSE IF RuntimePresent(match[1].runtimeMinutes)
               THEN IF FloatParses(match[1].runtimeMinutes)
                    THEN Found(RuntimeInt(match[1].runtimeMinutes), tconst,
                               "Alt title match", cand)
                    ELSE ResolveTconst(rows, cols, size, tconst, cand, c + 1)
               ELSE Continue

\* "for idx, var in enumerate(variations_lower)" over one window of the
\* alternate-title index, from candidate idx on
RECURSIVE ScanAltChunk(_, _, _, _, _, _, _)
ScanAltChunk(alt_chunk, rows, cols, size, vl, tv, idx) ==
  IF idx > Len(vl) THEN Continue
  ELSE LET alt_match == MatchRows(alt_chunk, "title", vl[idx])
           r == IF alt_match = <<>> THEN Continue
                ELSE ResolveTconst(rows, cols, size, alt_match[1].titleId,
                                   tv[idx], 0)
       IN IF r = Continue
          THEN ScanAltChunk(alt_chunk, rows, cols, size, vl, tv, idx + 1)
          ELSE r

\* Strategy 2: "for chunk_idx, alt_chunk in enumerate(alttitles_reader)",
\* from window c on
RECURSIVE AltPass(_, _, _, _, _, _, _, _)
AltPass(alt, acols, rows, cols, size, vl, tv, c) ==
  IF c >= NumChunks(alt, size) THEN Continue
  ELSE LET r == IF {"title", "titleId"} \subseteq acols
                THEN ScanAltChunk(Chunk(alt, size, c), rows, cols, size,
                                  vl, tv, 1)
                ELSE Continue
       IN IF r # Continue THEN r
          ELSE AltPass(alt, acols, rows, cols, size, vl, tv, c + 1)

\* the body of the try block: strategy 1, then strategy 2
SearchBody(eng, tv) ==
  LET vl == variations_lower(tv)
  IN IF ~eng.movie_readable THEN Raise("FileNotFoundError")
     ELSE LET s1 == CatalogPass(eng.moviedata, eng.movie_columns,
                                eng.chunk_size, vl, tv, 0)
          IN IF s1 # Continue THEN s1
             ELSE IF ~eng.alt_readable THEN Raise("FileNotFoundError")
             ELSE LET s2 == AltPass(eng.alttitles, eng.alt_columns,
                                    eng.moviedata, eng.movie_columns,
                                    eng.chunk_size, vl, tv, 0)
                  IN IF s2 # Continue THEN s2
                     ELSE NotFound("Not found after chunked search")

\* find_runtime_chunked without its try/except: the exception leaves it
NoCatch(r) == r

\* "except Exception as e: return None, None, f'Search error: ...'"
CatchSearchError(r) == IF r.kind = "raise" THEN NotFound("Search error") ELSE r

\* find_runtime_chunked(title_variations) on the engine state eng
find_runtime_chunked(eng, tv) ==
  IF ~eng.loaded THEN NotFound("Database not loaded")
  ELSE IF variations_lower(tv) = <<>> THEN NotFound("No valid variations")
  ELSE CatchSearchError(SearchBody(eng, tv))

-----------------------------------------------------------------------------
(* find_runtime_enhanced (script.py): the whole tables in memory, candidate by
   candidate, no try/except around int(float(runtime)) *)

\* ser.str.lower() == variation.lower(): a missing name stays missing
StrLowerEquals(name, v) == name # NaN /\ Lower(name) = Lower(v)

\* ser.str.contains(re.escape(variation), case=False, na=False)
StrContains(name, v) ==
  /\ name # NaN
  /\ \E i \in 1..(Len(name) - Len(v) + 1) : StartsAt(Lower(name), i, Lower(v))

\* "return int(float(runtime)), ..." of a present runtime
EnhancedReturn(cell, tc, label, cand) ==
  IF FloatParses(cell) THEN Found(RuntimeInt(cell), tc, label, cand)
  ELSE Raise("ValueError")

\* match.loc[match['primaryTitle'].str.len().idxmin()]: the first shortest
ShortestFirst(match) ==
  match[CHOOSE i \in 1..Len(match) :
          /\ \A j \in 1..Len(match) :
               Len(match[i].primaryTitle) <= Len(match[j].primaryTitle)
          /\ \A j \in 1..(i - 1) :
               Len(match[j].primaryTitle) > Len(match[i].primaryTitle)]

\* "for _, alt_row in alt_match.head(3).iterrows()", from row i on
RECURSIVE EnhancedAltPartial(_, _, _, _)
EnhancedAltPartial(alt_match, rows, v, i) ==
  IF i > Min(3, Len(alt_match)) THEN Continue
  ELSE LET movie_match ==
             SelectSeq(rows, LAMBDA r : r.tconst = alt_match[i].titleId)
       IN IF /\ movie_match # <<>>
             /\ RuntimePresent(movie_match[1].runtimeMinutes)
          THEN EnhancedReturn(movie_match[1].runtimeMinutes,
                              alt_match[i].titleId, "Alt title partial", v)
          ELSE EnhancedAltPartial(alt_match, rows, v, i + 1)

\* strategies 4 and 5 for one candidate
EnhancedAlt(v, rows, alt) ==
  LET exact == SelectSeq(alt, LAMBDA r : StrLowerEquals(r.title, v))
      movie_match ==
        SelectSeq(rows, LAMBDA r : r.tconst = exact[1].titleId)
      partial == SelectSeq(alt, LAMBDA r : StrContains(r.title, v))
  IN IF /\ exact # <<>>
        /\ movie_match # <<>>
        /\ RuntimePresent(movie_match[1].runtimeMinutes)
     THEN EnhancedReturn(movie_match[1].runtimeMinutes, exact[1].titleId,
                         "Alt title exact", v)
     ELSE EnhancedAltPartial(partial, rows, v, 1)

\* the body of "for variation in title_variations" for one candidate
EnhancedOne(v, rows, alt) ==
  LET prim == SelectSeq(rows, LAMBDA r : StrLowerEquals(r.primaryTitle, v))
      orig == SelectSeq(rows, LAMBDA r : StrLowerEquals(r.originalTitle, v))
      part == SelectSeq(rows, LAMBDA r : StrContains(r.primaryTitle, v))
  IN IF prim # <<>> /\ RuntimePresent(prim[1].runtimeMinutes)
     THEN EnhancedReturn(prim[1].runtimeMinutes, prim[1].tconst,
                         "Direct match (primary)", v)
     ELSE IF orig # <<>> /\ RuntimePresent(orig[1].runtimeMinutes)
     THEN EnhancedReturn(orig[1].runtimeMinutes, orig[1].tconst,
                         "Direct match (original)", v)
     ELSE IF /\ part # <<>>
             /\ RuntimePresent(ShortestFirst(part).runtimeMinutes)
     THEN EnhancedReturn(ShortestFirst(part).runtimeMinutes,
                         ShortestFirst(part).tconst,
                         "Partial match (primary)", v)
     ELSE EnhancedAlt(v, rows, alt)

\* find_runtime_enhanced(title_variations, moviedata_df, alttitles_df), from
\* candidate i on
RECURSIVE find_runtime_enhanced(_, _, _, _)
find_runtime_enhanced(tv, rows, alt, i) ==
  IF i > Len(tv) THEN NotFound("Not found")
  ELSE IF tv[i] = <<>> THEN find_runtime_enhanced(tv, rows, alt, i + 1)
  ELSE LET r == EnhancedOne(tv[i], rows, alt)
       IN IF r # Continue THEN r
          ELSE find_runtime_enhanced(tv, rows, alt, i + 1)

-----------------------------------------------------------------------------
(* analyze_watch_history *)

batch_size == 50

\* limit=None; a limit n is <<n>>
NoLimit == <<>>

NoFile == "None"

\* the engine as find_runtime_chunked sees it
Engine ==
  [loaded |-> loaded,
   movie_readable |-> moviedata_file \in disk,
   alt_readable |-> alttitles_file \in disk,
   moviedata |-> moviedata,
   movie_columns |-> movie_columns,
   alttitles |-> alttitles,
   alt_columns |-> alt_columns,
   chunk_size |-> chunk_size]

\* str(title) if not pd.isna(title) else 'nan'
TitleStr(cell) == IF cell = NaN THEN NanText ELSE cell

\* str(date) if not pd.isna(date) else ''
DateStr(cell) == IF cell = NaN THEN <<>> ELSE cell

NoneText == <<"N", "o", "n", "e">>

\* the test without its whitespace-only case
InvalidTitleNoBlank(title_str) == title_str \in {NanText, NoneText, <<>>}

\* title_str in ['nan', 'None', ''] or title_str.strip() == ''
InvalidTitle(title_str) ==
  title_str \in {NanText, NoneText, <<>>} \/ Strip(title_str) = <<>>

\* 'variations_tried': '' of an invalid entry
NoVariations == [repr |-> "str", items |-> <<>>]

\* 'variations_tried': str(variations)
StrOfList(vs) == [repr |-> "list", items |-> vs]

\* "if runtime:" on the first element of the lookup's tuple
Truthy(r) == r.kind = "found" /\ r.runtime # 0

\* watchhistory_df.head(limit) "if limit:", as a row count
HeadLen(n, lim) ==
  IF lim = NoLimit \/ lim[1] = 0 THEN n
  ELSE IF lim[1] > 0 THEN Min(lim[1], n)
  ELSE Max(n + lim[1], 0)

NoResponse ==
  [status |-> "pending", total_runtime |-> 0, found_count |-> 0,
   not_found_count |-> 0, found_entries |-> <<>>, not_found_entries |-> <<>>]

\* the call: accumulators, the limit, total_rows
AnalyzeStart(h, lim) ==
  /\ pc = "idle"
  /\ history' = h
  /\ limit' = lim
  /\ total_rows' = HeadLen(Len(h), lim)
  /\ total_runtime' = 0
  /\ found_entries' = <<>>
  /\ not_found_entries' = <<>>
  /\ batch_start' = 0
  /\ batch_end' = 0
  /\ row_idx' = 0
  /\ pc' = "batches"
  /\ UNCHANGED <<engineVars, title, result, response>>

\* a batch that ends one row early
BatchEndShort(start, total) == Min(start + batch_size - 1, total)

\* batch_end = min(batch_start + batch_size, total_rows)
BatchEnd(start, total) == Min(start + batch_size, total)

\* "for batch_start in range(0, total_rows, batch_size)": enter a batch
NextBatch ==
  /\ pc = "batches"
  /\ batch_start < total_rows
  /\ batch_end' = BatchEnd(batch_start, total_rows)
  /\ row_idx' = batch_start
  /\ pc' = "rows"
  /\ UNCHANGED <<engineVars, title, result, history, limit, total_rows,
                 batch_start, total_runtime, found_entries,
                 not_found_entries, response>>

\* the record appended for a row with an empty or invalid title
InvalidEntry(title_str, date) ==
  [original_title |-> title_str, variations_tried |-> NoVariations,
   reason |-> "Empty/Invalid title", date |-> DateStr(date)]

\* a found entry that records a negative runtime as 0
FoundEntryClamped(title_str, r, date) ==
  [original_title |-> title_str, matched_via |-> <<r.info, r.via>>,
   runtime |-> Max(r.runtime, 0), tconst |-> r.tconst, date |-> DateStr(date)]

\* the record appended to found_entries
FoundEntry(title_str, r, date) ==
  [original_title |-> title_str, matched_via |-> <<r.info, r.via>>,
   runtime |-> r.runtime, tconst |-> r.tconst, date |-> DateStr(date)]

\* the record appended to not_found_entries after a lookup
NotFoundEntry(title_str, variations, date) ==
  [original_title |-> title_str, variations_tried |-> StrOfList(variations),
   reason |-> "No matches found in chunked search", date |-> DateStr(date)]

\* "if runtime: ... else: ..." on what the lookup returned; an exception
\* leaving find_runtime_chunked would leave analyze_watch_history too
RecordLookup(title_str, date, variations, r) ==
  /\ title' = title_str
  /\ result' = [fn |-> "find_runtime_chunked", tv |-> variations, out |-> r]
  /\ IF r.kind = "raise"
     THEN /\ pc' = "raised"
          /\ response' = [NoResponse EXCEPT !.status = "raised"]
          /\ UNCHANGED <<row_idx, total_runtime, found_entries,
                         not_found_entries>>
     ELSE /\ row_idx' = row_idx + 1
          /\ UNCHANGED <<pc, response>>
          /\ IF Truthy(r)
             THEN /\ total_runtime' = total_runtime + r.runtime
                  /\ found_entries' =
                       Append(found_entries, FoundEntry(title_str, r, date))
                  /\ UNCHANGED not_found_entries
             ELSE /\ not_found_entries' =
                       Append(not_found_entries,
                              NotFoundEntry(title_str, variations, date))
                  /\ UNCHANGED <<total_runtime, found_entries>>

\* a lookup that answers with the Found result of the call before it
LookupTitleCached(title_str, date, variations) ==
  RecordLookup(title_str, date, variations,
               IF result.out.kind = "found" THEN result.out
               ELSE find_runtime_chunked(Engine, variations))

\* variations = self.extract_variations(title_str), then the lookup
LookupTitle(title_str, date, variations) ==
  RecordLookup(title_str, date, variations,
               find_runtime_chunked(Engine, variations))

\* the row's title: recorded as invalid, or looked up
HandleTitle(title_str, date) ==
  IF InvalidTitle(title_str)
  THEN /\ not_found_entries' =
            Append(not_found_entries, InvalidEntry(title_str, date))
       /\ row_idx' = row_idx + 1
       /\ UNCHANGED <<title, result, total_runtime, found_entries, pc,
                      response>>
  ELSE LookupTitle(title_str, date, extract_variations(title_str))

\* the body of "for idx, row in batch_df.iterrows()" for one row
ProcessRow ==
  /\ pc = "rows"
  /\ row_idx < batch_end
  /\ HandleTitle(TitleStr(history[row_idx + 1].Title),
                 history[row_idx + 1].Date)
  /\ UNCHANGED <<engineVars, history, limit, total_rows, batch_start,
                 batch_end>>

\* the end of a batch: gc.collect(), then the next batch_start
EndBatch ==
  /\ pc = "rows"
  /\ row_idx = batch_end
  /\ batch_start' = batch_start + batch_size
  /\ pc' = "batches"
  /\ UNCHANGED <<engineVars, title, result, history, limit, total_rows,
                 batch_end, row_idx, total_runtime, found_entries,
                 not_found_entries, response>>

\* the return statement
AnalyzeReturn ==
  /\ pc = "batches"
  /\ batch_start >= total_rows
  /\ response' =
       [status |-> "ok", total_runtime |-> total_runtime,
        found_count |-> Len(found_entries),
        not_found_count |-> Len(not_found_entries),
        found_entries |-> found_entries,
        not_found_entries |-> not_found_entries]
  /\ pc' = "done"
  /\ UNCHANGED <<engineVars, title, result, history, limit, total_rows,
                 batch_start, batch_end, row_idx, total_runtime,
                 found_entries, not_found_entries>>

-----------------------------------------------------------------------------
(* resolveTitle: extract_variations followed by the lookup *)

\* resolveTitle(t) on the chunked engine (app.py, motherapp.py)
ResolveTitle(t) ==
  /\ pc = "idle"
  /\ result = NoResult
  /\ title' = t
  /\ result' = [fn |-> "find_runtime_chunked",
                tv |-> extract_variations(t),
                out |-> find_runtime_chunked(Engine, extract_variations(t))]
  /\ UNCHANGED <<engineVars, batchVars>>

\* the same lookup by script.py over the tables in memory
ResolveEnhanced(t) ==
  /\ pc = "idle"
  /\ result = NoResult
  /\ title' = t
  /\ result' = [fn |-> "find_runtime_enhanced",
                tv |-> extract_variations(t),
                out |-> find_runtime_enhanced(extract_variations(t),
                                              moviedata, alttitles, 1)]
  /\ UNCHANGED <<engineVars, batchVars>>

-----------------------------------------------------------------------------
(* the inputs *)

MovieFile == "moviedata.csv"

AltFile == "alternatetitles.csv"

MovieColumns == {"tconst", "primaryTitle", "originalTitle", "runtimeMinutes"}

AltColumns == {"titleId", "title"}

TconstOf(i) == "tt" \o ToString(i)

\* rows per catalog, rows per alternate-title index, rows per window
MaxRows == 2

MaxAltRows == 2

MaxChunk == 2

\* names in the reference tables: two titles in another case than the
\* candidates, and a missing name
RefNames == {<<"a">>, <<"B">>, NaN}

\* runtimes in the catalogs of the lookup specification: the null marker,
\* -1.5 and 2.5
RefRuntimes == {RStr(NullMarker), RNum(-3), RNum(5)}

\* every runtime cell kind: also NaN, 'N/A', blank text, text that is no
\* number, 0, -0.5, numeric text
AllRuntimes ==
  RefRuntimes \cup {RNaN, RStr(NotApplicable), RStr(<<" ">>), RStr(<<"x">>),
                    RNum(0), RNum(-1), RStr(<<"7">>), RStr(<<"-", "7">>)}

MkCatalog(f, n) ==
  [i \in 1..n |-> [tconst |-> TconstOf(i),
                   primaryTitle |-> f[i][1],
                   originalTitle |-> f[i][2],
                   runtimeMinutes |-> f[i][3]]]

\* catalogs of up to MaxRows rows, and one-row catalogs with every runtime kind
Catalogs ==
  UNION {{MkCatalog(f, n) :
            f \in [1..n -> RefNames \X RefNames \X RefRuntimes]} :
         n \in 0..MaxRows}
  \cup {MkCatalog(f, 1) : f \in [1..1 -> {<<"a">>} \X {NaN} \X AllRuntimes]}

MkAltIndex(f, n) == [i \in 1..n |-> [title |-> f[i][1], titleId |-> f[i][2]]]

\* alternate-title rows refer to the last catalog row or to no catalog row
AltIds == {TconstOf(MaxRows), "tt0"}

AltRows == ({<<"A">>} \X AltIds) \cup {<<NaN, TconstOf(MaxRows)>>}

AltIndexes ==
  UNION {{MkAltIndex(f, n) : f \in [1..n -> AltRows]} : n \in 0..MaxAltRows}

\* "The A", "A: B", "Nan: A"
ResolveTitles ==
  {<<"T", "h", "e", " ", "A">>,
   <<"A", ":", " ", "B">>,
   <<"N", "a", "n", ":", " ", "A">>}

-----------------------------------------------------------------------------
(* the lookup specification: a loaded engine, any reference tables *)

IdleBatch ==
  /\ history = <<>>
  /\ limit = NoLimit
  /\ pc = "idle"
  /\ total_rows = 0
  /\ batch_start = 0
  /\ batch_end = 0
  /\ row_idx = 0
  /\ total_runtime = 0
  /\ found_entries = <<>>
  /\ not_found_entries = <<>>
  /\ response = NoResponse
  /\ reload_pc = "idle"

InitResolve ==
  /\ loaded = TRUE
  /\ moviedata_file = MovieFile
  /\ alttitles_file = AltFile
  /\ disk = {MovieFile, AltFile}
  /\ movie_columns = MovieColumns
  /\ alt_columns = AltColumns
  /\ chunk_size \in 1..MaxChunk
  /\ moviedata \in Catalogs
  /\ alttitles \in AltIndexes
  /\ title = <<>>
  /\ result = NoResult
  /\ IdleBatch

NextResolve ==
  \/ \E t \in ResolveTitles : ResolveTitle(t)
  \/ \E t \in ResolveTitles : ResolveEnhanced(t)

SpecResolve == InitResolve /\ [][NextResolve]_vars

-----------------------------------------------------------------------------
(* the batch specification: one analyze_watch_history call on an engine that
   is ready or whose reference data is unavailable *)

\* full batches a history holds, at most
MaxBatches == 2

\* "a": 2.5 minutes, "B": null marker, "z": 0 minutes, "n": -1.5 minutes
BatchCatalog ==
  MkCatalog(<< <<<<"a">>, NaN, RNum(5)>>,
               <<<<"B">>, NaN, RStr(NullMarker)>>,
               <<<<"z">>, NaN, RNum(0)>>,
               <<<<"n">>, NaN, RNum(-3)>> >>, 4)

\* an alternate name of no catalog row
BatchAltIndex == MkAltIndex(<< <<<<"b">>, "tt0">> >>, 1)

\* "The A", "B", "Z", "N", "(2020)", a missing title, " ", "None", ""
BatchTitles ==
  << <<"T", "h", "e", " ", "A">>,
     <<"B">>,
     <<"Z">>,
     <<"N">>,
     <<"(", "2", "0", "2", "0", ")">>,
     NaN,
     <<" ">>,
     NoneText,
     <<>> >>

\* a history of n rows walking the title list cyclically from start with the
\* given stride; the Date column numbers the rows
MkHistory(start, stride, n) ==
  [i \in 1..n |->
     [Title |-> BatchTitles[((start + (i - 1) * stride) % Len(BatchTitles)) + 1],
      Date |-> <<ToString(i)>>]]

\* lengths around the batch boundaries
HistoryLengths ==
  {n \in 0..(MaxBatches * batch_size + 1) :
     \E k \in 0..MaxBatches : n - k * batch_size \in {-1, 0, 1}}

\* histories that walk the title list from any start, and histories that
\* repeat one title: "The A" (every entry found) or a missing title
Histories ==
  {MkHistory(start, 1, n) :
     start \in 0..(Len(BatchTitles) - 1), n \in HistoryLengths}
  \cup {MkHistory(start, 0, n) : start \in {0, 5}, n \in HistoryLengths}

Limits == {NoLimit, <<0>>, <<1>>, <<batch_size>>, <<batch_size + 1>>}

\* what can be wrong with the reference data
Faults == {"none", "not loaded", "catalog file missing",
           "alternate file missing", "no runtimeMinutes column",
           "no tconst column"}

Init ==
  /\ \E fault \in Faults :
       /\ loaded = (fault # "not loaded")
       /\ disk = {MovieFile, AltFile}
                 \ (IF fault = "catalog file missing" THEN {MovieFile}
                    ELSE IF fault = "alternate file missing" THEN {AltFile}
                    ELSE {})
       /\ movie_columns =
            MovieColumns
            \ (IF fault = "no runtimeMinutes column" THEN {"runtimeMinutes"}
               ELSE IF fault = "no tconst column" THEN {"tconst"}
               ELSE {})
  /\ moviedata_file = MovieFile
  /\ alttitles_file = AltFile
  /\ alt_columns = AltColumns
  /\ chunk_size = MaxChunk
  /\ moviedata = BatchCatalog
  /\ alttitles = BatchAltIndex
  /\ title = <<>>
  /\ result = NoResult
  /\ IdleBatch

Next ==
  \/ \E h \in Histories, lim \in Limits : AnalyzeStart(h, lim)
  \/ NextBatch
  \/ ProcessRow
  \/ EndBatch
  \/ AnalyzeReturn

Spec == Init /\ [][Next]_vars

-----------------------------------------------------------------------------
(* script.py: analyze_watch_history over the tables in memory *)

\* watchhistory_df.head(20)
head_rows == 20

\* the call: accumulators, then the loop over watchhistory_df.head(20)
ScriptStart(h) ==
  /\ pc = "idle"
  /\ history' = h
  /\ limit' = NoLimit
  /\ total_rows' = Min(head_rows, Len(h))
  /\ total_runtime' = 0
  /\ found_entries' = <<>>
  /\ not_found_entries' = <<>>
  /\ row_idx' = 0
  /\ pc' = "script"
  /\ UNCHANGED <<engineVars, title, result, batch_start, batch_end, response>>

\* the record appended for a row with an empty or invalid title
ScriptInvalidEntry(title_str, date) ==
  [original_title |-> title_str, variations_tried |-> NoVariations,
   reason |-> "Empty/Invalid title", date |-> date]

\* the record appended to found_entries
ScriptFoundEntry(title_str, r, date) ==
  [original_title |-> title_str, matched_via |-> <<r.info, r.via>>,
   runtime |-> r.runtime, tconst |-> r.tconst, date |-> date]

\* the record appended to not_found_entries after a lookup
ScriptNotFoundEntry(title_str, variations, date) ==
  [original_title |-> title_str, variations_tried |-> StrOfList(variations),
   reason |-> "No matches found in any strategy", date |-> date]

\* "if runtime: ... else: ..." on what find_runtime_enhanced returned; its
\* exception leaves analyze_watch_history
ScriptRecord(title_str, date, variations, r) ==
  /\ title' = title_str
  /\ result' = [fn |-> "find_runtime_enhanced", tv |-> variations, out |-> r]
  /\ IF r.kind = "raise"
     THEN /\ pc' = "raised"
          /\ response' = [NoResponse EXCEPT !.status = "raised"]
          /\ UNCHANGED <<row_idx, total_runtime, found_entries,
                         not_found_entries>>
     ELSE /\ row_idx' = row_idx + 1
          /\ UNCHANGED <<pc, response>>
          /\ IF Truthy(r)
             THEN /\ total_runtime' = total_runtime + r.runtime
                  /\ found_entries' =
                       Append(found_entries,
                              ScriptFoundEntry(title_str, r, date))
                  /\ UNCHANGED not_found_entries
             ELSE /\ not_found_entries' =
                       Append(not_found_entries,
                              ScriptNotFoundEntry(title_str, variations, date))
                  /\ UNCHANGED <<total_runtime, found_entries>>

\* variations = extract_variations(title_str), then the lookup
ScriptLookup(title_str, date, variations) ==
  ScriptRecord(title_str, date, variations,
               find_runtime_enhanced(variations, moviedata, alttitles, 1))

\* the row's title: recorded as invalid, or looked up
ScriptTitle(title_str, date) ==
  IF InvalidTitle(title_str)
  THEN /\ not_found_entries' =
            Append(not_found_entries, ScriptInvalidEntry(title_str, date))
       /\ row_idx' = row_idx + 1
       /\ UNCHANGED <<title, result, total_runtime, found_entries, pc,
                      response>>
  ELSE ScriptLookup(title_str, date, extract_variations(title_str))

\* the body of "for idx, row in watchhistory_df.head(20).iterrows()"
ScriptRow ==
  /\ pc = "script"
  /\ row_idx < total_rows
  /\ ScriptTitle(TitleStr(history[row_idx + 1].Title),
                 history[row_idx + 1].Date)
  /\ UNCHANGED <<engineVars, history, limit, total_rows, batch_start,
                 batch_end>>

\* the return statement
ScriptReturn ==
  /\ pc = "script"
  /\ row_idx = total_rows
  /\ response' =
       [status |-> "ok", total_runtime |-> total_runtime,
        found_count |-> Len(found_entries),
        not_found_count |-> Len(not_found_entries),
        found_entries |-> found_entries,
        not_found_entries |-> not_found_entries]
  /\ pc' = "done"
  /\ UNCHANGED <<engineVars, title, result, history, limit, total_rows,
                 batch_start, batch_end, row_idx, total_runtime,
                 found_entries, not_found_entries>>

\* the tables script.py loaded, then one analyze_watch_history call
InitScript ==
  /\ loaded = TRUE
  /\ moviedata_file = MovieFile
  /\ alttitles_file = AltFile
  /\ disk = {MovieFile, AltFile}
  /\ movie_columns = MovieColumns
  /\ alt_columns = AltColumns
  /\ chunk_size = MaxChunk
  /\ moviedata = BatchCatalog
  /\ alttitles = BatchAltIndex
  /\ title = <<>>
  /\ result = NoResult
  /\ IdleBatch

NextScript ==
  \/ \E h \in Histories : ScriptStart(h)
  \/ ScriptRow
  \/ ScriptReturn

SpecScript == InitScript /\ [][NextScript]_vars

-----------------------------------------------------------------------------
(* the title specification: clean_title_for_matching and extract_variations
   applied to raw titles built from a few tokens *)

\* tokens a raw title holds, at most
MaxTokens == 3

\* "The ", "A", ":", " ", "(2020)", "(1", "999)", "Season 1:"
Tokens ==
  { <<"T", "h", "e", " ">>,
    <<"A">>,
    <<":">>,
    <<" ">>,
    <<"(", "2", "0", "2", "0", ")">>,
    <<"(", "1">>,
    <<"9", "9", "9", ")">>,
    <<"S", "e", "a", "s", "o", "n", " ", "1", ":">> }

\* the tokens of ts joined, from token i on
RECURSIVE Concat(_, _)
Concat(ts, i) == IF i > Len(ts) THEN <<>> ELSE ts[i] \o Concat(ts, i + 1)

\* the raw titles: every string of at most MaxTokens tokens, and a missing
\* title
RawTitles ==
  {Concat(ts, 1) : ts \in UNION {[1..n -> Tokens] : n \in 0..MaxTokens}}
  \cup {NaN}

\* a call of clean_title_for_matching(t)
CleanTitle(t) ==
  /\ pc = "idle"
  /\ result = NoResult
  /\ title' = t
  /\ result' = [fn |-> "clean_title_for_matching",
                tv |-> <<clean_title_for_matching(t)>>,
                out |-> NotFound("")]
  /\ UNCHANGED <<engineVars, batchVars>>

\* a call of extract_variations(t)
ExtractVariations(t) ==
  /\ pc = "idle"
  /\ result = NoResult
  /\ title' = t
  /\ result' = [fn |-> "extract_variations",
                tv |-> extract_variations(t),
                out |-> NotFound("")]
  /\ UNCHANGED <<engineVars, batchVars>>

NextTitle ==
  \/ \E t \in RawTitles : CleanTitle(t)
  \/ \E t \in RawTitles : ExtractVariations(t)

SpecTitle == InitScript /\ [][NextTitle]_vars

-----------------------------------------------------------------------------
(* the server specification: one /api/calculate request next to /api/status
   and /api/reload requests on the shared calculator *)

\* rows of the uploaded watch history, at most
MaxUpload == 3

\* load_data(): both files downloaded and loaded set, or the download fails
\* and the paths are None
LoadData(ok) ==
  IF ok
  THEN /\ moviedata_file' = MovieFile
       /\ alttitles_file' = AltFile
       /\ disk' = disk \cup {MovieFile, AltFile}
       /\ loaded' = TRUE
  ELSE /\ moviedata_file' = NoFile
       /\ alttitles_file' = NoFile
       /\ UNCHANGED <<disk, loaded>>

\* GET /api/status on a calculator that is not loaded
StatusRequest(ok) ==
  /\ ~loaded
  /\ LoadData(ok)
  /\ UNCHANGED <<chunk_size, movie_columns, alt_columns, moviedata,
                 alttitles, reload_pc, title, result, batchVars>>

\* POST /api/calculate up to the call of analyze_watch_history: the data is
\* loaded first when it is not, and a failed load ends the request
CalculateRequest(h, ok) ==
  /\ pc = "idle"
  /\ IF loaded
     THEN AnalyzeStart(h, NoLimit)
     ELSE /\ LoadData(ok)
          /\ UNCHANGED <<chunk_size, movie_columns, alt_columns, moviedata,
                         alttitles, reload_pc, title, result>>
          /\ IF ok
             THEN /\ history' = h
                  /\ limit' = NoLimit
                  /\ total_rows' = HeadLen(Len(h), NoLimit)
                  /\ pc' = "batches"
                  /\ UNCHANGED <<batch_start, batch_end, row_idx,
                                 total_runtime, found_entries,
                                 not_found_entries, response>>
             ELSE /\ response' =
                       [NoResponse EXCEPT !.status = "Database loading failed"]
                  /\ UNCHANGED <<history, limit, pc, total_rows, batch_start,
                                 batch_end, row_idx, total_runtime,
                                 found_entries, not_found_entries>>

\* POST /api/reload, "calculator.cleanup()": the files are unlinked
ReloadCleanup ==
  /\ reload_pc = "idle"
  /\ disk' = disk \ {moviedata_file, alttitles_file}
  /\ reload_pc' = "cleaned"
  /\ UNCHANGED <<loaded, moviedata_file, alttitles_file, chunk_size,
                 movie_columns, alt_columns, moviedata, alttitles, title,
                 result, batchVars>>

\* "calculator.loaded = False"
ReloadUnload ==
  /\ reload_pc = "cleaned"
  /\ loaded' = FALSE
  /\ reload_pc' = "unloaded"
  /\ UNCHANGED <<moviedata_file, alttitles_file, chunk_size, disk,
                 movie_columns, alt_columns, moviedata, alttitles, title,
                 result, batchVars>>

\* "success, message = calculator.load_data()", then the response
ReloadLoad(ok) ==
  /\ reload_pc = "unloaded"
  /\ LoadData(ok)
  /\ reload_pc' = "idle"
  /\ UNCHANGED <<chunk_size, movie_columns, alt_columns, moviedata,
                 alttitles, title, result, batchVars>>

\* the uploaded histories
Uploads ==
  {MkHistory(start, 1, n) :
     start \in 0..(Len(BatchTitles) - 1), n \in 1..MaxUpload}

\* the process after "calculator = ChunkedRuntimeCalculator()"
InitServer ==
  /\ loaded = FALSE
  /\ moviedata_file = NoFile
  /\ alttitles_file = NoFile
  /\ disk = {}
  /\ movie_columns = MovieColumns
  /\ alt_columns = AltColumns
  /\ chunk_size = MaxChunk
  /\ moviedata = BatchCatalog
  /\ alttitles = BatchAltIndex
  /\ title = <<>>
  /\ result = NoResult
  /\ IdleBatch

NextServer ==
  \/ \E ok \in BOOLEAN : StatusRequest(ok)
  \/ \E h \in Uploads, ok \in BOOLEAN : CalculateRequest(h, ok)
  \/ NextBatch
  \/ ProcessRow
  \/ EndBatch
  \/ AnalyzeReturn
  \/ ReloadCleanup
  \/ ReloadUnload
  \/ \E ok \in BOOLEAN : ReloadLoad(ok)

SpecServer == InitServer /\ [][NextServer]_vars

-----------------------------------------------------------------------------
(* vocabulary of the properties *)

\* the candidate list of the last lookup
Cands == result.tv

\* the last lookup was made by find_runtime_chunked / find_runtime_enhanced
Chunked == result.fn = "find_runtime_chunked"

Enhanced == result.fn = "find_runtime_enhanced"

\* the name text of a row case-insensitively equals the candidate
NameIs(name, c) == name # NaN /\ Lower(name) = Lower(c)

NameIsCandidate(name) == \E k \in 1..Len(Cands) : NameIs(name, Cands[k])

\* the runtime is a missing sentinel or does not parse as a number
Malformed(cell) ==
  \/ cell.k = "nan"
  \/ /\ cell.k = "str"
     /\ \/ Strip(cell.s) \in {<<>>, NullMarker, NotApplicable}
        \/ ~TextIsNumber(cell.s)

\* twice the number the runtime parses to
Halves(cell) == IF cell.k = "num" THEN cell.h ELSE TextHalves(cell.s)

\* the runtime parses to a non-negative number
Usable(cell) == ~Malformed(cell) /\ Halves(cell) >= 0

\* the integer part of a non-negative runtime
IntegerPart(cell) == Halves(cell) \div 2

\* the catalog row with the identifier
RowsOf(tconst) == {i \in 1..Len(moviedata) : moviedata[i].tconst = tconst}

\* candidate k has a primary-name match with a usable runtime in row i
PrimaryHit(k, i) ==
  /\ NameIs(moviedata[i].primaryTitle, Cands[k])
  /\ Usable(moviedata[i].runtimeMinutes)

\* the window a row falls in (0-based)
WindowOf(i) == (i - 1) \div chunk_size

-----------------------------------------------------------------------------
\* C1: with a loaded engine, if exactly one catalog row has a primary or
\* original name equal (ignoring case) to a candidate of the raw title, that
\* row's primary name equals a candidate and its runtime parses to a
\* non-negative number, resolveTitle returns Found with the integer part of
\* that runtime, that row's identifier and the primary-name label, whatever
\* window the row falls in.
C1_OnlyPrimaryMatchIsFound ==
  Chunked =>
    \A i \in 1..Len(moviedata) :
      ( /\ NameIsCandidate(moviedata[i].primaryTitle)
        /\ Usable(moviedata[i].runtimeMinutes)
        /\ \A j \in 1..Len(moviedata) \ {i} :
             /\ ~NameIsCandidate(moviedata[j].primaryTitle)
             /\ ~NameIsCandidate(moviedata[j].originalTitle) )
      => /\ result.out.kind = "found"
         /\ result.out.runtime = IntegerPart(moviedata[i].runtimeMinutes)
         /\ result.out.tconst = moviedata[i].tconst
         /\ result.out.info = "Primary title match"

\* C1 restricted to catalogs in which no row lacks a name: the part of C1
\* that does not meet the missing-name match of C25
C1_WithoutMissingNames ==
  (\A j \in 1..Len(moviedata) :
     moviedata[j].primaryTitle # NaN /\ moviedata[j].originalTitle # NaN)
  => C1_OnlyPrimaryMatchIsFound

\* C2: whenever any candidate has a primary-name match with a usable runtime
\* anywhere in the catalog, the result of find_runtime_chunked is never an
\* alternate-title-index match.
C2_PrimaryBeforeAlternate ==
  ( /\ Chunked
    /\ \E k \in 1..Len(Cands), i \in 1..Len(moviedata) : PrimaryHit(k, i) )
  => result.out.info # "Alt title match"

\* C3: when two different candidates both have a primary-name match with a
\* usable runtime, find_runtime_chunked returns the match of the candidate
\* that comes earlier in the list, whatever windows the rows are in.
C3_EarlierCandidateWins ==
  Chunked =>
    \A k1, k2 \in 1..Len(Cands), i1, i2 \in 1..Len(moviedata) :
      ( /\ k1 < k2
        /\ PrimaryHit(k1, i1)
        /\ PrimaryHit(k2, i2)
        /\ \A k0 \in 1..(k1 - 1), i0 \in 1..Len(moviedata) :
             ~PrimaryHit(k0, i0) )
      => /\ result.out.kind = "found"
         /\ result.out.via = Cands[k1]

\* C4: if the first catalog row whose primary name equals a candidate has an
\* unusable runtime and a later row with that name (in the same or a later
\* window) has a usable one, and no other candidate or strategy matches,
\* find_runtime_chunked returns Found with that later row's runtime.
C4_ScansPastUnusableRow ==
  Chunked =>
    \A k \in 1..Len(Cands), i, j \in 1..Len(moviedata) :
      ( /\ i < j
        /\ NameIs(moviedata[i].primaryTitle, Cands[k])
        /\ Malformed(moviedata[i].runtimeMinutes)
        /\ NameIs(moviedata[j].primaryTitle, Cands[k])
        /\ Usable(moviedata[j].runtimeMinutes)
        /\ \A m \in (i + 1)..(j - 1) :
             Malformed(moviedata[m].runtimeMinutes)
        /\ \A m \in 1..Len(moviedata), c \in 1..Len(Cands) :
             /\ c # k => ColumnLower(moviedata[m].primaryTitle) # Lower(Cands[c])
             /\ ColumnLower(moviedata[m].primaryTitle) = Lower(Cands[k])
                  => m >= i
             /\ ColumnLower(moviedata[m].originalTitle) # Lower(Cands[c])
        /\ \A m \in 1..Len(alttitles), c \in 1..Len(Cands) :
             ColumnLower(alttitles[m].title) # Lower(Cands[c]) )
      => /\ result.out.kind = "found"
         /\ result.out.runtime = IntegerPart(moviedata[j].runtimeMinutes)

\* C5: a structurally matched row whose runtime is a missing sentinel or does
\* not parse is a non-match: neither lookup raises or returns an error for
\* it, neither returns it as Found, and the result is NotFound when no
\* catalog row has a well-formed runtime.
C5_MalformedRuntimeIsNonMatch ==
  (Chunked \/ Enhanced) =>
    /\ result.out.kind # "raise"
    /\ result.out.info # "Search error"
    /\ result.out.kind = "found" =>
         \A i \in RowsOf(result.out.tconst) :
           ~Malformed(moviedata[i].runtimeMinutes)
    /\ (\A i \in 1..Len(moviedata) : Malformed(moviedata[i].runtimeMinutes))
         => result.out.kind = "none"

\* C5 for find_runtime_chunked alone
C5_ChunkedOnly == Chunked => C5_MalformedRuntimeIsNonMatch

-----------------------------------------------------------------------------
(* vocabulary of the batch properties *)

LookedUp == "No matches found in chunked search"

\* the reference data is unavailable: the engine is not loaded, the catalog
\* file is missing, or a required column is absent
DataUnavailable ==
  \/ ~loaded
  \/ moviedata_file \notin disk
  \/ ~({"runtimeMinutes", "tconst"} \subseteq movie_columns)

\* the number of entries the call considers
Considered ==
  IF limit = NoLimit \/ limit[1] = 0 THEN Len(history)
  ELSE Min(limit[1], Len(history))

\* the entries of a list that record row i of the history
RecordsOf(entries, i) ==
  {k \in 1..Len(entries) :
     /\ entries[k].date = history[i].Date
     /\ entries[k].original_title = TitleStr(history[i].Title)}

\* the row of the history an entry records, by its date
RowOf(entry) ==
  CHOOSE i \in 1..Len(history) : history[i].Date = entry.date

\* the list keeps the input order: the rows its entries record increase
InInputOrder(entries) ==
  \A k \in 1..(Len(entries) - 1) :
    RowOf(entries[k]) < RowOf(entries[k + 1])

\* the guard of one of the steps of analyze_watch_history holds, or the
\* call has not started or has returned
HasNextStep ==
  \/ pc \in {"idle", "done"}
  \/ pc = "batches" /\ batch_start < total_rows
  \/ pc = "batches" /\ batch_start >= total_rows
  \/ pc = "rows" /\ row_idx < batch_end
  \/ pc = "rows" /\ row_idx = batch_end

-----------------------------------------------------------------------------
\* C6: every Found result of find_runtime_chunked and every runtime recorded
\* in found_entries and added to total_runtime is a non-negative integer; a
\* matched row whose runtime parses to a negative number is never accepted.
C6_RuntimesNonNegative ==
  /\ (Chunked /\ result.out.kind = "found") =>
       /\ result.out.runtime >= 0
       /\ \A i \in RowsOf(result.out.tconst) :
            Halves(moviedata[i].runtimeMinutes) >= 0
  /\ \A k \in 1..Len(found_entries) : found_entries[k].runtime >= 0
  /\ total_runtime >= 0

\* C7: the NotFound record of every title that was looked up carries the list
\* of attempted candidates, and that list is not empty.
C7_NotFoundCarriesCandidates ==
  \A k \in 1..Len(not_found_entries) :
    not_found_entries[k].reason = LookedUp =>
      /\ not_found_entries[k].variations_tried.repr = "list"
      /\ not_found_entries[k].variations_tried.items # <<>>

\* C8: when the reference data is unavailable, analyze_watch_history aborts at
\* the first entry that needs it, with a top-level error and no partial
\* results; the entry is never recorded as an ordinary NotFound entry.
C8_DataUnavailableAborts ==
  (DataUnavailable /\ Chunked) =>
    /\ pc = "raised"
    /\ response.status = "raised"
    /\ found_entries = <<>>
    /\ \A k \in 1..Len(not_found_entries) :
         not_found_entries[k].reason # LookedUp

\* C9: per-title failures never abort a batch: the call never ends in an
\* exception, always has a next step until it returns, and returns a result
\* in which every considered entry is recorded.
C9_BatchRunsToCompletion ==
  /\ pc # "raised"
  /\ HasNextStep
  /\ pc \in {"batches", "rows"} =>
       Len(found_entries) + Len(not_found_entries) = row_idx
  /\ pc = "done" =>
       /\ response.status = "ok"
       /\ \A i \in 1..Considered :
            RecordsOf(response.found_entries, i)
              \cup RecordsOf(response.not_found_entries, i) # {}

\* a batch of more than 50 entries with an invalid title, and a title whose
\* row has a malformed runtime, returned
C9_Witness ==
  /\ pc = "done"
  /\ Considered > batch_size
  /\ \E k \in 1..Len(response.not_found_entries) :
       response.not_found_entries[k].reason = "Empty/Invalid title"
  /\ \E k \in 1..Len(response.not_found_entries) :
       response.not_found_entries[k].original_title = <<"B">>

\* C10: found_count + not_found_count is the number of entries considered;
\* each considered entry appears exactly once, in exactly one of the two
\* lists, and each list keeps the input order, whatever the batching.
C10_CountsPartitionHistory ==
  pc = "done" =>
    /\ response.found_count + response.not_found_count = Considered
    /\ response.found_count = Len(response.found_entries)
    /\ response.not_found_count = Len(response.not_found_entries)
    /\ \A i \in 1..Considered :
         Cardinality(RecordsOf(response.found_entries, i))
           + Cardinality(RecordsOf(response.not_found_entries, i)) = 1
    /\ InInputOrder(response.found_entries)
    /\ InInputOrder(response.not_found_entries)

\* a returned batch that crossed a batch boundary under a limit and filled
\* both lists
C10_Witness ==
  /\ pc = "done"
  /\ limit # NoLimit
  /\ Considered > batch_size
  /\ response.found_count > 0
  /\ response.not_found_count > 0

-----------------------------------------------------------------------------
\* the sum of the 'runtime' field over the first n entries
RECURSIVE SumRuntime(_, _)
SumRuntime(entries, n) ==
  IF n = 0 THEN 0 ELSE SumRuntime(entries, n - 1) + entries[n].runtime

\* C11: in every result of analyze_watch_history, and at every point of the
\* call, total_runtime is the sum of the 'runtime' field over found_entries.
C11_TotalIsSumOfFound ==
  /\ pc \in {"batches", "rows"} =>
       total_runtime = SumRuntime(found_entries, Len(found_entries))
  /\ pc = "done" =>
       response.total_runtime =
         SumRuntime(response.found_entries, Len(response.found_entries))

\* a returned result with several found entries, a negative runtime among
\* them, next to entries that were not found
C11_Witness ==
  /\ pc = "done"
  /\ response.found_count > 2
  /\ response.not_found_count > 0
  /\ \E k \in 1..Len(response.found_entries) :
       response.found_entries[k].runtime < 0
  /\ \E k \in 1..Len(response.found_entries) :
       response.found_entries[k].runtime > 0

-----------------------------------------------------------------------------
\* the number of entries a call with a positive limit, or with none, is to
\* process
Wanted ==
  IF limit # NoLimit /\ limit[1] > 0 THEN Min(limit[1], Len(history))
  ELSE Len(history)

\* row i of the history is recorded in the returned result
Recorded(i) ==
  RecordsOf(response.found_entries, i)
    \cup RecordsOf(response.not_found_entries, i) # {}

\* C12: analyze_watch_history with a positive limit L over n entries processes
\* exactly the first min(L, n) entries, in input order, and ignores the rest;
\* without a limit it processes all n entries.
C12_LimitIsPrefix ==
  (pc = "done" /\ (limit = NoLimit \/ limit[1] > 0)) =>
    /\ response.found_count + response.not_found_count = Wanted
    /\ \A i \in 1..Len(history) : Recorded(i) <=> i <= Wanted
    /\ InInputOrder(response.found_entries)
    /\ InInputOrder(response.not_found_entries)

-----------------------------------------------------------------------------
\* a title cell that is empty, null or whitespace-only
EmptyNullOrBlank(cell) ==
  cell = NaN \/ \A k \in 1..Len(cell) : IsSpace(cell[k])

\* analyze_watch_history is about to process a row with such a title
AtBlankRow ==
  /\ pc = "rows"
  /\ row_idx < batch_end
  /\ EmptyNullOrBlank(history[row_idx + 1].Title)

\* C13: a history entry whose title is empty, null or whitespace-only is
\* appended to not_found_entries with the reason 'Empty/Invalid title', which
\* is not the reason of a title that was looked up, and the step performs no
\* lookup: the last lookup's result and the found entries stay as they were.
C13_InvalidTitleNotLookedUp ==
  [][AtBlankRow =>
       /\ Len(not_found_entries') = Len(not_found_entries) + 1
       /\ SubSeq(not_found_entries', 1, Len(not_found_entries))
            = not_found_entries
       /\ not_found_entries'[Len(not_found_entries')].reason
            = "Empty/Invalid title"
       /\ not_found_entries'[Len(not_found_entries')].reason # LookedUp
       /\ not_found_entries'[Len(not_found_entries')].original_title
            = TitleStr(history[row_idx + 1].Title)
       /\ result' = result
       /\ title' = title
       /\ found_entries' = found_entries
       /\ total_runtime' = total_runtime]_vars

\* an empty, a null and a whitespace-only title were recorded as invalid
\* next to a title that was looked up and not found
C13_Witness ==
  /\ \E k \in 1..Len(not_found_entries) :
       /\ not_found_entries[k].original_title = <<>>
       /\ not_found_entries[k].reason = "Empty/Invalid title"
  /\ \E k \in 1..Len(not_found_entries) :
       /\ not_found_entries[k].original_title = NanText
       /\ not_found_entries[k].reason = "Empty/Invalid title"
  /\ \E k \in 1..Len(not_found_entries) :
       /\ not_found_entries[k].original_title = <<" ">>
       /\ not_found_entries[k].reason = "Empty/Invalid title"
  /\ \E k \in 1..Len(not_found_entries) :
       not_found_entries[k].reason = LookedUp

-----------------------------------------------------------------------------
(* vocabulary of the title properties *)

Cleaned == result.fn = "clean_title_for_matching"

Extracted == result.fn = "extract_variations"

\* s holds a year token: a 4-digit number in round or square brackets
HasYearToken(s) ==
  \E i \in 1..(Len(s) - 5) :
    /\ s[i] \in {"(", "["}
    /\ \A k \in 1..4 : IsDigit(s[i + k])
    /\ s[i + 5] \in {")", "]"}

\* the text after the last colon of b (all of b when it has none), trimmed
EpisodeSegment(b) ==
  LET after == {i \in 1..(Len(b) + 1) :
                  \A k \in i..Len(b) : b[k] # ":"}
      from == CHOOSE i \in after : \A j \in after : i <= j
  IN Strip([k \in 1..(Len(b) + 1 - from) |-> b[from + k - 1]])

\* the text before the first colon of b (all of b when it has none), trimmed
SeriesSegment(b) ==
  LET before == {n \in 0..Len(b) : \A k \in 1..n : b[k] # ":"}
      upto == CHOOSE n \in before : \A m \in before : n >= m
  IN Strip([k \in 1..upto |-> b[k]])

\* v case-insensitively starts with 'the '
TheForm(v) ==
  /\ Len(v) >= 4
  /\ Lower(<<v[1], v[2], v[3], v[4]>>) = <<"t", "h", "e", " ">>

\* v without its first four characters, trimmed
WithoutThe(v) == Strip([k \in 1..(Len(v) - 4) |-> v[k + 4]])

\* the first n elements of vs with empty strings dropped and only the first
\* occurrence of each string kept
RECURSIVE FirstOccurrences(_, _)
FirstOccurrences(vs, n) ==
  IF n = 0 THEN <<>>
  ELSE IF vs[n] = <<>> \/ \E j \in 1..(n - 1) : vs[j] = vs[n]
       THEN FirstOccurrences(vs, n - 1)
       ELSE Append(FirstOccurrences(vs, n - 1), vs[n])

\* the candidate list the variation rules prescribe for a raw title string
PrescribedVariations(t) ==
  LET base == clean_title_for_matching(t)
      three == <<base, EpisodeSegment(base), SeriesSegment(base)>>
      stripped == [k \in 1..3 |-> IF TheForm(three[k])
                                  THEN WithoutThe(three[k]) ELSE <<>>]
      all == three \o stripped
  IN FirstOccurrences(all, Len(all))

-----------------------------------------------------------------------------
\* C14: clean_title_for_matching is idempotent: cleaning its result again
\* gives the same string, for nested or adjacent bracketed years and for
\* consecutive ': Season N:' markers too.
C14_CleanIsIdempotent ==
  Cleaned => clean_title_for_matching(result.tv[1]) = result.tv[1]

\* C15: for every raw title t, every element of extract_variations(t) is a
\* non-empty string and no two elements are equal.
C15_NonEmptyNoDuplicates ==
  Extracted =>
    /\ \A k \in 1..Len(result.tv) : result.tv[k] # <<>>
    /\ \A j, k \in 1..Len(result.tv) : result.tv[j] = result.tv[k] => j = k

\* C15, for raw title strings: every element of extract_variations(t) is a
\* non-empty string and no two elements are equal.
C15_NonEmptyNoDuplicatesOfStrings ==
  (Extracted /\ title # NaN) =>
    /\ \A k \in 1..Len(result.tv) : result.tv[k] # <<>>
    /\ \A j, k \in 1..Len(result.tv) : result.tv[j] = result.tv[k] => j = k

\* the variations of "A:A", whose episode and series segments are equal:
\* the segment is listed once
C15_Witness ==
  /\ Extracted
  /\ title = <<"A", ":", "A">>
  /\ result.tv = << <<"A", ":", "A">>, <<"A">> >>

\* C16: for raw input that normalises to the empty string, extract_variations
\* returns the single-element list holding only the empty string.
C16_EmptyYieldsEmptyString ==
  (Extracted /\ clean_title_for_matching(title) = <<>>) =>
    result.tv = << <<>> >>

\* C17: for every raw title string t, extract_variations(t) is the sequence
\* base, episode segment, series segment, then the 'the '-stripped forms of
\* those three in the same order, trimmed, without empty strings and with
\* only the first occurrence of each; the episode segment precedes the
\* series segment and a stripped form is not stripped again.
C17_VariationsAsPrescribed ==
  (Extracted /\ title # NaN) => result.tv = PrescribedVariations(title)

\* the variations of "The :A": the title, its episode segment "A", its
\* series segment "The", and the once-stripped title ":A"
C17_Witness ==
  /\ Extracted
  /\ title = <<"T", "h", "e", " ", ":", "A">>
  /\ result.tv = << <<"T", "h", "e", " ", ":", "A">>, <<"A">>,
                    <<"T", "h", "e">>, <<":", "A">> >>

\* C18: no element of extract_variations(t), and so clean_title_for_matching(t)
\* itself, holds a year token.
C18_NoYearToken ==
  (Cleaned \/ Extracted) =>
    \A k \in 1..Len(result.tv) : ~HasYearToken(result.tv[k])

-----------------------------------------------------------------------------
\* two found entries of the same title carry the same answer
SameAnswer(e, f) ==
  e.original_title = f.original_title =>
    /\ e.runtime = f.runtime
    /\ e.tconst = f.tconst
    /\ e.matched_via = f.matched_via

\* every lookup of a title in the returned result gave the same answer,
\* whatever calls came before it
AnswersRepeat ==
  pc = "done" =>
    /\ \A k, l \in 1..Len(response.found_entries) :
         SameAnswer(response.found_entries[k], response.found_entries[l])
    /\ \A k \in 1..Len(response.found_entries) :
         \A l \in 1..Len(response.not_found_entries) :
           response.found_entries[k].original_title
             # response.not_found_entries[l].original_title

\* C19: the engine is stateless between calls: no step of a lookup changes a
\* field of the calculator or the reference data, and a title looked up again
\* after any sequence of other lookups gets the same result.
C19_EngineIsStateless ==
  /\ [][engineVars' = engineVars]_vars
  /\ []AnswersRepeat

\* a returned result in which a title was found twice and another was looked
\* up in vain twice, with other lookups in between
C19_Witness ==
  /\ pc = "done"
  /\ \E k, l \in 1..Len(response.found_entries) :
       /\ k + 1 < l
       /\ response.found_entries[k].original_title
            = response.found_entries[l].original_title
  /\ \E k, l \in 1..Len(response.not_found_entries) :
       /\ k + 1 < l
       /\ response.not_found_entries[k].reason = LookedUp
       /\ response.not_found_entries[k].original_title
            = response.not_found_entries[l].original_title

-----------------------------------------------------------------------------
\* both files the calculator points to are on disk
FilesPresent == moviedata_file \in disk /\ alttitles_file \in disk

\* the calculate request is inside analyze_watch_history
Resolving == pc \in {"batches", "rows"}

\* C20: the reference files are read-only while resolutions run: in every
\* interleaving of /api/calculate, /api/status and /api/reload no resolution
\* in progress meets a deleted or replaced file, and loaded is never true
\* while a file the calculator points to is missing.
C20_ReferenceFilesStable ==
  /\ loaded => FilesPresent
  /\ Resolving => FilesPresent
  /\ (Resolving /\ Chunked) => result.out.info # "Search error"

-----------------------------------------------------------------------------
\* candidate k has an original-name match with a usable runtime in row i
OriginalHit(k, i) ==
  /\ NameIs(moviedata[i].originalTitle, Cands[k])
  /\ Usable(moviedata[i].runtimeMinutes)

\* no candidate has a usable primary-name or original-name match
NoCatalogHit ==
  \A k \in 1..Len(Cands), i \in 1..Len(moviedata) :
    ~PrimaryHit(k, i) /\ ~OriginalHit(k, i)

\* index row a is named like a candidate and refers to catalog row i, whose
\* runtime is usable
AlternateHit(a, i) ==
  /\ NameIsCandidate(alttitles[a].title)
  /\ moviedata[i].tconst = alttitles[a].titleId
  /\ Usable(moviedata[i].runtimeMinutes)

\* C21: when no candidate has a usable primary-name or original-name match
\* and an alternate-title row named like a candidate refers to a catalog row
\* with a usable runtime, find_runtime_chunked returns Found with that row's
\* runtime and identifier via the alternate-title strategy, even if other
\* index rows of that name refer to absent identifiers or unusable runtimes.
C21_AlternateRowIsFound ==
  (Chunked /\ NoCatalogHit) =>
    \A a \in 1..Len(alttitles), i \in 1..Len(moviedata) :
      AlternateHit(a, i) =>
        /\ result.out.kind = "found"
        /\ result.out.runtime = IntegerPart(moviedata[i].runtimeMinutes)
        /\ result.out.tconst = moviedata[i].tconst
        /\ result.out.info = "Alt title match"

\* the engine reading each table as a single window
SingleWindow ==
  [Engine EXCEPT !.chunk_size = Len(moviedata) + Len(alttitles) + 1]

\* C22: the result of find_runtime_chunked does not depend on the window
\* size: it equals the result with one window holding the whole table.
C22_WindowSizeIrrelevant ==
  Chunked => result.out = find_runtime_chunked(SingleWindow, Cands)

\* C23: whenever any candidate has a primary-name match with a usable runtime
\* anywhere in the catalog, the result carries the 'Primary title match'
\* label; it is never an 'Original title match' of another row.
C23_PrimaryBeforeOriginal ==
  ( /\ Chunked
    /\ \E k \in 1..Len(Cands), i \in 1..Len(moviedata) : PrimaryHit(k, i) )
  => result.out.info = "Primary title match"

-----------------------------------------------------------------------------
\* the last record of a list of entries
LastOf(entries) == entries[Len(entries)]

\* the step appends an 'Empty/Invalid title' record
RecordsInvalid ==
  /\ Len(not_found_entries') = Len(not_found_entries) + 1
  /\ LastOf(not_found_entries').reason = "Empty/Invalid title"

\* analyze_watch_history finishes a row whose title it looked up
LookupStep ==
  /\ pc = "rows"
  /\ row_idx < batch_end
  /\ row_idx' = row_idx + 1
  /\ ~RecordsInvalid

\* C24: analyze_watch_history records an entry in found_entries exactly when
\* find_runtime_chunked returned Found: a matched row, also one whose runtime
\* is 0, is appended to found_entries with its runtime and not to
\* not_found_entries; any other result appends to not_found_entries only.
C24_FoundIsRecordedAsFound ==
  [][LookupStep =>
       IF result'.out.kind = "found"
       THEN /\ Len(found_entries') = Len(found_entries) + 1
            /\ LastOf(found_entries').original_title
                 = TitleStr(history[row_idx + 1].Title)
            /\ LastOf(found_entries').runtime = result'.out.runtime
            /\ not_found_entries' = not_found_entries
       ELSE /\ found_entries' = found_entries
            /\ Len(not_found_entries') = Len(not_found_entries) + 1]_vars

\* the row the Found result was read from has a name, and the name is the
\* text of a candidate
FoundByName ==
  IF result.out.info = "Alt title match"
  THEN \E a \in 1..Len(alttitles) :
         /\ alttitles[a].titleId = result.out.tconst
         /\ NameIsCandidate(alttitles[a].title)
  ELSE \E i \in 1..Len(moviedata) :
         /\ moviedata[i].tconst = result.out.tconst
         /\ IF result.out.info = "Primary title match"
            THEN NameIsCandidate(moviedata[i].primaryTitle)
            ELSE NameIsCandidate(moviedata[i].originalTitle)

\* C25: a catalog row whose primary or original name is missing, and an index
\* row whose name is missing, is never matched by any candidate: every Found
\* result refers to a row whose actual name text equals a candidate.
C25_MissingNameNeverMatched ==
  (Chunked /\ result.out.kind = "found") => FoundByName

\* analyze_watch_history is about to process a row whose title is a string
\* that is not blank
AtTextRow ==
  /\ pc = "rows"
  /\ row_idx < batch_end
  /\ ~EmptyNullOrBlank(history[row_idx + 1].Title)

\* C26: an entry is classified 'Empty/Invalid title' only when its title is
\* empty, null or whitespace-only: a non-blank string title, the texts
\* 'None' and 'nan' included, is passed to extract_variations and
\* find_runtime_chunked.
C26_OnlyBlankIsInvalid ==
  [][AtTextRow =>
       /\ ~RecordsInvalid
       /\ title' = history[row_idx + 1].Title
       /\ result'.fn = "find_runtime_chunked"
       /\ result'.tv = extract_variations(history[row_idx + 1].Title)]_vars

====
